---------------------------- MODULE Spec2Model ----------------------------
(***************************************************************************)
(* Model of selectio: the XICOR rank-dependence engine                     *)
(* (models/xicor.py: class Xicor and factor_importance) and the            *)
(* multi-model feature selection built on it (selectio.py: class Fsel).    *)
(*                                                                         *)
(* Floating point values are modelled as exact fractions <<num, den>> in   *)
(* lowest terms with den > 0, extended by the IEEE special values the      *)
(* numpy arithmetic of the code produces instead of raising:               *)
(*   NaN = <<0, 0>>,  +inf = <<1, 0>>,  -inf = <<-1, 0>>.                  *)
(* A p-value 1 - Phi(z) is represented by its z statistic, <<sign, z^2>>:  *)
(* Phi is strictly increasing, so p <= 0.01 iff z >= Phi^-1(0.99).         *)
(***************************************************************************)
EXTENDS Integers, Sequences, FiniteSets, TLC

(***************************************************************************)
(* Bounds of the model                                                     *)
(***************************************************************************)
MaxLen == 3
BatchLen == 4
MaxCols == 2
MaxThreshold == 2
MaxModels == 3
MaxFeatures == 2

(***************************************************************************)
(* Program constants                                                       *)
(***************************************************************************)
\* stochastic_sample(self, threshold = 1000)
DefaultThreshold == 1000
\* corr[pvals>0.01] = 0 : p <= 0.01 iff z >= 2.32635, z^2 >= 5.4119
Z99SqNum == 54119
Z99SqDen == 10000
\* eval_score(self, score, woe_min = 0.05) : 0.05 = 1/20
WoeMinDen == 20

(***************************************************************************)
(* Floating point arithmetic (numpy float64, exact fractions)              *)
(***************************************************************************)
Abs(a) == IF a < 0 THEN -a ELSE a

Sgn(a) == IF a < 0 THEN -1 ELSE IF a > 0 THEN 1 ELSE 0

\* a function over 1..n as the sequence of its values
Tuple(f) == f \o <<>>

RECURSIVE GCD(_, _)
GCD(a, b) == IF b = 0 THEN a ELSE GCD(b, a % b)

Norm(n, d) ==
    IF d = 0 THEN <<Sgn(n), 0>>
    ELSE LET g == GCD(Abs(n), Abs(d))
         IN  <<(Sgn(d) * n) \div g, Abs(d) \div g>>

NaN == <<0, 0>>
Zero == <<0, 1>>
One == <<1, 1>>
FInt(k) == <<k, 1>>

IsNaN(a) == a[1] = 0 /\ a[2] = 0
IsInf(a) == a[1] # 0 /\ a[2] = 0
IsFinite(a) == a[2] # 0

FNeg(a) == <<-a[1], a[2]>>

FAdd(a, b) ==
    IF IsNaN(a) \/ IsNaN(b) THEN NaN
    ELSE IF IsInf(a) /\ IsInf(b) THEN (IF a = b THEN a ELSE NaN)
    ELSE IF IsInf(a) THEN a
    ELSE IF IsInf(b) THEN b
    ELSE LET g == GCD(a[2], b[2])
             l == (a[2] \div g) * b[2]
         IN  Norm(a[1] * (l \div a[2]) + b[1] * (l \div b[2]), l)

FSub(a, b) == FAdd(a, FNeg(b))

\* x * y; inf * 0 = NaN
FMul(a, b) ==
    LET g1 == GCD(Abs(a[1]), Abs(b[2]))
        g2 == GCD(Abs(b[1]), Abs(a[2]))
        h1 == IF g1 = 0 THEN 1 ELSE g1
        h2 == IF g2 = 0 THEN 1 ELSE g2
    IN  Norm((a[1] \div h1) * (b[1] \div h2), (a[2] \div h2) * (b[2] \div h1))

\* x / y as numpy computes it: x/0 = +-inf, 0/0 = NaN, no exception raised
FDiv(a, b) == FMul(a, Norm(b[2], b[1]))

FSquare(a) == FMul(a, a)

FAbs(a) == <<Abs(a[1]), a[2]>>

\* comparisons are False as soon as one side is NaN
FLt(a, b) ==
    /\ ~IsNaN(a)
    /\ ~IsNaN(b)
    /\ IF IsInf(a) THEN a[1] < 0 /\ b # a
       ELSE IF IsInf(b) THEN b[1] > 0
       ELSE a[1] * b[2] < b[1] * a[2]

FGt(a, b) == FLt(b, a)

FGe(a, b) == ~IsNaN(a) /\ ~IsNaN(b) /\ ~FLt(a, b)

RECURSIVE FSumFrom(_, _)
FSumFrom(s, k) == IF k > Len(s) THEN Zero ELSE FAdd(s[k], FSumFrom(s, k + 1))

\* np.sum
FSum(s) == FSumFrom(s, 1)

\* np.mean: the sum divided by the number of elements (NaN for none)
FMean(s) == FDiv(FSum(s), FInt(Len(s)))


(***************************************************************************)
(* Rank transforms (scipy.stats.rankdata, numpy.argsort)                   *)
(***************************************************************************)
\* stats.rankdata(v, method="ordinal"): distinct ranks, ties by position
RankOrdinal(v) ==
    Tuple([j \in 1..Len(v) |->
        Cardinality({k \in 1..Len(v) : v[k] < v[j]})
      + Cardinality({k \in 1..j : v[k] = v[j]})])

\* stats.rankdata(v, method="max"): ties share the largest rank of the group
RankMax(v) ==
    Tuple([j \in 1..Len(v) |-> Cardinality({k \in 1..Len(v) : v[k] <= v[j]})])

\* np.argsort(r): the indices of r in ascending order of value
Argsort(r) ==
    Tuple([k \in 1..Len(r) |->
        CHOOSE i \in 1..Len(r) :
            Cardinality({j \in 1..Len(r) :
                r[j] < r[i] \/ (r[j] = r[i] /\ j < i)}) = k - 1])

\* the permutations of 1..n: np.random.choice(np.arange(n), n, replace=False)
Perms(n) == {p \in [1..n -> 1..n] : \A a, b \in 1..n : p[a] = p[b] => a = b}

\* the draws of t distinct indices out of 1..n, in drawing order
Draws(n, t) == {p \in [1..t -> 1..n] : \A a, b \in 1..t : p[a] = p[b] => a = b}

(***************************************************************************)
(* class Xicor                                                             *)
(***************************************************************************)
\* Xicor.stochastic_sample: v[idx] when the threshold is crossed
StochasticSample(v, threshold, idx) ==
    IF Len(v) > threshold THEN Tuple([k \in 1..threshold |-> v[idx[k]]]) ELSE v

\* Xicor.x_ordered_rank with randomized_indices = p
\* randomized = [self.x[idx] for idx in randomized_indices]
Randomized(x, p) == Tuple([j \in 1..Len(x) |-> x[p[j]]])

\* unrandomized = [rankdata[j] for i, j in
\*                 sorted(zip(randomized_indices, range(len_x)))]
Unrandomized(rankdata, p) ==
    Tuple([i \in 1..Len(p) |-> rankdata[CHOOSE j \in 1..Len(p) : p[j] = i]])

\* mutant: the ranks of the shuffled data, not put back in index order
XOrderedRankShuffled(x, p) == RankOrdinal(Randomized(x, p))

XOrderedRank(x, p) == Unrandomized(RankOrdinal(Randomized(x, p)), p)

\* Xicor.y_rank_max
Scaled(r, n) == Tuple([i \in 1..Len(r) |-> Norm(r[i], n)])

YRankMax(y) == Scaled(RankMax(y), Len(y))

\* Xicor.g
Negated(y) == Tuple([i \in 1..Len(y) |-> -y[i]])

GRank(y) == Scaled(RankMax(Negated(y)), Len(y))

\* Xicor.x_ordered
XOrdered(x, p) == Argsort(XOrderedRank(x, p))

\* Xicor.x_rank_max_ordered
Reordered(f, ord) == Tuple([k \in 1..Len(ord) |-> f[ord[k]]])

XRankMaxOrdered(x, y, p) == Reordered(YRankMax(y), XOrdered(x, p))

\* Xicor.mean_absolute: first is x_rank_max_ordered as evaluated for the
\* slice [0 : n-1], second as evaluated again for the slice [1 : n]
ZipDiffs(first, second) ==
    Tuple([k \in 1..(Len(first) - 1) |-> FAbs(FSub(first[k], second[k + 1]))])

MeanAbsolute(first, second) ==
    FDiv(FMul(FMean(ZipDiffs(first, second)), FInt(Len(first) - 1)),
         FInt(2 * Len(first)))

\* Xicor.inverse_g_mean
GTimesOneMinusG(g) == Tuple([i \in 1..Len(g) |-> FMul(g[i], FSub(One, g[i]))])

InverseGMean(y) == FMean(GTimesOneMinusG(GRank(y)))

\* Xicor.correlation
Correlation(ma, y) == FSub(One, FDiv(ma, InverseGMean(y)))

\* sorted(s) for a list of floats, ascending
SortedF(s) ==
    Tuple([k \in 1..Len(s) |->
        s[CHOOSE i \in 1..Len(s) :
            Cardinality({j \in 1..Len(s) :
                FLt(s[j], s[i]) \/ (s[j] = s[i] /\ j < i)}) = k - 1]])

\* ind2 = [2 * n - 2 * ind[i - 1] + 1 for i in ind], ind = 1..n
Ind2(n) == Tuple([i \in 1..n |-> 2 * n - 2 * i + 1])

\* np.cumsum
CumSum(s) == Tuple([k \in 1..Len(s) |-> FSum(SubSeq(s, 1, k))])

\* a of pval_asymptotic: np.mean(ind2 * f * f) / sample_size
WeightedSquares(ind2, sf) ==
    Tuple([i \in 1..Len(sf) |-> FMul(FInt(ind2[i]), FSquare(sf[i]))])

\* mutant: the plain mean, not divided by sample_size
MomentAPlain(sf) == FMean(WeightedSquares(Ind2(Len(sf)), sf))

MomentA(sf) == FDiv(FMean(WeightedSquares(Ind2(Len(sf)), sf)), FInt(Len(sf)))

\* c of pval_asymptotic: np.mean(ind2 * f) / sample_size
Weighted(ind2, sf) == Tuple([i \in 1..Len(sf) |-> FMul(FInt(ind2[i]), sf[i])])

MomentC(sf) == FDiv(FMean(Weighted(Ind2(Len(sf)), sf)), FInt(Len(sf)))

\* b of pval_asymptotic: np.mean(m^2), m = (cq + (n - ind) * f) / n
MList(cq, sf) ==
    Tuple([i \in 1..Len(sf) |->
        FDiv(FAdd(cq[i], FMul(FInt(Len(sf) - i), sf[i])), FInt(Len(sf)))])

Squares(m) == Tuple([i \in 1..Len(m) |-> FSquare(m[i])])

MomentB(sf) == FMean(Squares(MList(CumSum(sf), sf)))

\* the locals a, b, c, v of pval_asymptotic for
\* sorted_ordered_x_rank = sf
\* v = (a - 2 * b + np.square(c)) / np.square(self.inverse_g_mean)
TieVariance(a, b, c, igm) ==
    FDiv(FAdd(FSub(a, FMul(FInt(2), b)), FSquare(c)), FSquare(igm))

MomentRecord(a, b, c, igm) ==
    [a |-> a, b |-> b, c |-> c, v |-> TieVariance(a, b, c, igm)]

TieMoments(sf, y) ==
    MomentRecord(MomentA(sf), MomentB(sf), MomentC(sf), InverseGMean(y))

\* the variance 2 / 5 of the simpler theory
SimpleVariance == Norm(2, 5)

PvalNaN == <<0, NaN>>

\* 1 - stats.norm.cdf(np.sqrt(n) * corr / np.sqrt(v)), as <<sign z, z^2>>;
\* np.sqrt of a negative number is NaN
ZStat(sgn, sq) == IF IsNaN(sq) THEN PvalNaN ELSE <<sgn, sq>>

Pval(n, c, v) ==
    IF IsNaN(c) \/ IsNaN(v) \/ FLt(v, Zero) THEN PvalNaN
    ELSE ZStat(Sgn(c[1]), FDiv(FMul(FInt(n), FSquare(c)), v))

\* which variance pval_asymptotic(ties) uses
PvalVariance(t, mom) == IF t THEN SimpleVariance ELSE mom.v

\* p <= 0.01
PvalLe001(p) == p[1] = 1 /\ FGe(p[2], Norm(Z99SqNum, Z99SqDen))

\* pvals > 0.01 (False for NaN)
PvalGt001(p) == ~IsNaN(p[2]) /\ ~PvalLe001(p)

(***************************************************************************)
(* factor_importance: cutoff and normalisation                             *)
(***************************************************************************)
\* mutant: the comparison reversed, corr[pvals<=0.01] = 0
CutoffReversed(c, pv) ==
    Tuple([j \in 1..Len(c) |-> IF PvalLe001(pv[j]) THEN Zero ELSE c[j]])

\* corr[pvals>0.01] = 0
Cutoff(c, pv) ==
    Tuple([j \in 1..Len(c) |-> IF PvalGt001(pv[j]) THEN Zero ELSE c[j]])

\* if np.sum(corr) > 0: corr /= np.sum(corr) else: corr = np.zeros(len(corr))
DividedBy(c, total) == Tuple([j \in 1..Len(c) |-> FDiv(c[j], total)])

Zeros(n) == Tuple([j \in 1..n |-> Zero])

NormalizeBy(c, total) ==
    IF FGt(total, Zero) THEN DividedBy(c, total) ELSE Zeros(Len(c))

Normalize(c) == NormalizeBy(c, FSum(c))

FactorImportance(c, pv, nrm) ==
    IF nrm THEN Normalize(Cutoff(c, pv)) ELSE Cutoff(c, pv)

(***************************************************************************)
(* class Fsel: pure parts                                                  *)
(***************************************************************************)
\* np.round(corr, 4): to four decimals, halves to the even neighbour
Round4(a) ==
    IF ~IsFinite(a) THEN a
    ELSE LET num == a[1] * 10000
             fl == num \div a[2]
             twice == 2 * (num - fl * a[2])
             up == twice > a[2] \/ (twice = a[2] /\ fl % 2 = 1)
         IN  Norm(IF up THEN fl + 1 ELSE fl, 10000)

\* Fsel.eval_score(score, woe_min = 0.05)
Accepted(sc, min_score) ==
    Tuple([j \in 1..Len(sc) |-> IF FGe(sc[j], min_score) THEN 1 ELSE 0])

EvalScore(sc) == Accepted(sc, FMul(FSum(sc), Norm(1, WoeMinDen)))

\* select[count_select >= self.nfeatures/2] = 1
Select(count, nf) ==
    Tuple([j \in 1..Len(count) |-> IF 2 * count[j] >= nf THEN 1 ELSE 0])

(***************************************************************************)
(* State                                                                   *)
(***************************************************************************)
VARIABLES
    X,            \* factor_importance: the feature matrix, a sequence of columns
    y,            \* the target vector
    norm,         \* factor_importance's norm argument
    ties,         \* the ties argument of pval_asymptotic
    thr,          \* threshold of the latest stochastic_sample call
    i,            \* loop index of factor_importance (1-based)
    pc,           \* position in factor_importance / in the Xicor calls
    phase,        \* "corr": line 42 (correlation); "pval": line 43
    self_x,       \* Xicor.x
    self_y,       \* Xicor.y
    rank,         \* x_ordered_rank of the first evaluation in mean_absolute
    fo_first,     \* x_rank_max_ordered as evaluated for the first slice
    mean_abs,     \* the latest value of Xicor.mean_absolute
    cur,          \* the latest value of Xicor.correlation
    mom,          \* locals a, b, c, v of pval_asymptotic
    corr,         \* corr[0 .. i-1] of factor_importance, before the cutoff
    pvals,        \* pvals[0 .. i-1]
    result,       \* the vector factor_importance returns
    nmodels,      \* Fsel.nmodels
    nfeatures,    \* Fsel.nfeatures
    score,        \* corr of the latest loop pass of score_models
    dfscore,      \* dfmodels['score_*'], one column per model scored
    dfwoe,        \* dfmodels['woe_*']
    count_select, \* count_select of score_models
    selected,     \* dfmodels['selected']
    fpc           \* position in score_models

xvars == <<X, y, norm, ties, thr, i, pc, phase, self_x, self_y, rank,
           fo_first, mean_abs, cur, mom, corr, pvals, result>>

fvars == <<nmodels, nfeatures, score, dfscore, dfwoe, count_select,
           selected, fpc>>

vars == <<xvars, fvars>>

(***************************************************************************)
(* Inputs                                                                  *)
(***************************************************************************)
XVals == {1, 2}
YVals == {1, 2}

Constant(n) == [k \in 1..n |-> 1]
Ramp(n) == [k \in 1..n |-> k]
\* 1, 1, 2, ..., n-1: one tied pair
TiedRamp(n) == [k \in 1..n |-> IF k = 1 THEN 1 ELSE k - 1]
\* 1, 2, 1, 2, ...
Alternating(n) == [k \in 1..n |-> 2 - (k % 2)]

BatchYs(n) == {Constant(n), Ramp(n), TiedRamp(n)}
BatchXs(n) == {Ramp(n), Alternating(n)}

Matrices(cols, maxk) ==
    UNION {[1..k -> cols] : k \in 1..maxk}

\* values of scores returned by the models of _list_models
ScoreVals == {Zero, Norm(1, 25), One}

NoMoments == [a |-> Zero, b |-> Zero, c |-> Zero, v |-> Zero]

XicorIdle ==
    /\ X = <<>> /\ y = <<>> /\ norm = FALSE /\ ties = FALSE
    /\ thr = DefaultThreshold /\ i = 1 /\ pc = "idle" /\ phase = "corr"
    /\ self_x = <<>> /\ self_y = <<>> /\ rank = <<>> /\ fo_first = <<>>
    /\ mean_abs = Zero /\ cur = Zero /\ mom = NoMoments
    /\ corr = <<>> /\ pvals = <<>> /\ result = <<>>

FselIdle ==
    /\ nmodels = 0 /\ nfeatures = 0 /\ score = <<>> /\ dfscore = <<>>
    /\ dfwoe = <<>> /\ count_select = <<>> /\ selected = <<>>
    /\ fpc = "idle"

XicorStart ==
    /\ thr = DefaultThreshold /\ i = 1 /\ pc = "new" /\ phase = "corr"
    /\ self_x = <<>> /\ self_y = <<>> /\ rank = <<>> /\ fo_first = <<>>
    /\ mean_abs = Zero /\ cur = Zero /\ mom = NoMoments
    /\ corr = <<>> /\ pvals = <<>> /\ result = <<>>

\* factor_importance(X, y, norm): pval_asymptotic is called with ties=False
Init ==
    /\ \E n \in 2..BatchLen :
        /\ y \in BatchYs(n)
        /\ X \in Matrices(BatchXs(n), MaxCols)
    /\ norm \in BOOLEAN
    /\ ties = FALSE
    /\ XicorStart
    /\ FselIdle

\* Xicor.xi(x, y), then correlation and pval_asymptotic(ties)
InitXicor ==
    /\ \E n \in 2..MaxLen :
        /\ y \in [1..n -> YVals]
        /\ X \in Matrices([1..n -> XVals], 1)
    /\ norm = FALSE
    /\ ties \in BOOLEAN
    /\ XicorStart
    /\ FselIdle

\* Fsel(X, y).score_models()
InitFsel ==
    /\ XicorIdle
    /\ nmodels \in 1..MaxModels
    /\ nfeatures \in 1..MaxFeatures
    /\ score = <<>> /\ dfscore = <<>> /\ dfwoe = <<>>
    /\ count_select = [j \in 1..nfeatures |-> 0]
    /\ selected = <<>>
    /\ fpc = "score"

(***************************************************************************)
(* Actions: class Xicor and factor_importance                              *)
(***************************************************************************)
\* the index draws of stochastic_sample: one draw when n > threshold
SampleDraws(n, threshold) ==
    IF n > threshold THEN Draws(n, threshold) ELSE {<<>>}

\* xi_obj = Xicor(X[:,i], y): __init__ with stochastic_sample()
NewXicor ==
    /\ pc = "new"
    /\ i <= Len(X)
    /\ \E idx \in SampleDraws(Len(X[i]), DefaultThreshold) :
        /\ self_x' = StochasticSample(X[i], DefaultThreshold, idx)
        /\ self_y' = StochasticSample(y, DefaultThreshold, idx)
    /\ thr' = DefaultThreshold
    /\ phase' = "corr"
    /\ pc' = "ma1"
    /\ UNCHANGED <<X, y, norm, ties, i, rank, fo_first, mean_abs, cur, mom,
                   corr, pvals, result>>
    /\ UNCHANGED fvars

\* mutant: x and y restricted by two independent draws
ResampleUnpaired ==
    /\ pc = "ma1"
    /\ phase = "corr"
    /\ thr = DefaultThreshold
    /\ \E t \in 2..MaxThreshold :
        /\ \E idx \in SampleDraws(Len(self_x), t) :
            self_x' = StochasticSample(self_x, t, idx)
        /\ \E idx \in SampleDraws(Len(self_y), t) :
            self_y' = StochasticSample(self_y, t, idx)
        /\ thr' = t
    /\ UNCHANGED <<X, y, norm, ties, i, pc, phase, rank, fo_first, mean_abs,
                   cur, mom, corr, pvals, result>>
    /\ UNCHANGED fvars

\* xi_obj.stochastic_sample(threshold = t), called on the fresh object
Resample ==
    /\ pc = "ma1"
    /\ phase = "corr"
    /\ thr = DefaultThreshold
    /\ \E t \in 2..MaxThreshold :
        /\ \E idx \in SampleDraws(Len(self_x), t) :
            /\ self_x' = StochasticSample(self_x, t, idx)
            /\ self_y' = StochasticSample(self_y, t, idx)
        /\ thr' = t
    /\ UNCHANGED <<X, y, norm, ties, i, pc, phase, rank, fo_first, mean_abs,
                   cur, mom, corr, pvals, result>>
    /\ UNCHANGED fvars

\* mean_absolute, first operand of zip: self.x_rank_max_ordered[0 : n-1],
\* with its own draw of randomized_indices
MeanAbsFirst ==
    /\ pc = "ma1"
    /\ \E p \in Perms(Len(self_x)) :
        /\ rank' = XOrderedRank(self_x, p)
        /\ fo_first' = XRankMaxOrdered(self_x, self_y, p)
    /\ pc' = "ma2"
    /\ UNCHANGED <<X, y, norm, ties, thr, i, phase, self_x, self_y, mean_abs,
                   cur, mom, corr, pvals, result>>
    /\ UNCHANGED fvars

\* mean_absolute, second operand: self.x_rank_max_ordered[1 : n], evaluated
\* again with a new draw; then correlation, and the statement that asked for
\* it: corr[i] = xi_obj.correlation, or the return of pval_asymptotic into
\* pvals[i] and the end of the loop pass
MeanAbsSecond ==
    /\ pc = "ma2"
    /\ \E p \in Perms(Len(self_x)) :
        \E ma \in {MeanAbsolute(fo_first, XRankMaxOrdered(self_x, self_y, p))} :
        \E c \in {Correlation(ma, self_y)} :
            /\ mean_abs' = ma
            /\ cur' = c
            /\ IF phase = "corr"
               THEN /\ corr' = Append(corr, c)
                    /\ pc' = "pv"
                    /\ UNCHANGED <<pvals, i>>
               ELSE /\ pvals' = Append(pvals,
                        Pval(Len(self_x), c, PvalVariance(ties, mom)))
                    /\ i' = i + 1
                    /\ pc' = IF i + 1 > Len(X) THEN "post" ELSE "new"
                    /\ UNCHANGED corr
    /\ rank' = <<>>
    /\ fo_first' = <<>>
    /\ UNCHANGED <<X, y, norm, ties, thr, phase, self_x, self_y, mom, result>>
    /\ UNCHANGED fvars

\* pval_asymptotic(ties, nperm=1000) up to its use of self.correlation:
\* the tie-corrected variance, from one more evaluation of
\* x_rank_max_ordered, unless the branch "if ties:" is taken
PvalBegin ==
    /\ pc = "pv"
    /\ IF ties
       THEN mom' = mom
       ELSE \E p \in Perms(Len(self_x)) :
               mom' = TieMoments(SortedF(XRankMaxOrdered(self_x, self_y, p)),
                                 self_y)
    /\ phase' = "pval"
    /\ pc' = "ma1"
    /\ UNCHANGED <<X, y, norm, ties, thr, i, self_x, self_y, rank, fo_first,
                   mean_abs, cur, corr, pvals, result>>
    /\ UNCHANGED fvars

\* factor_importance after the loop: cutoff, normalisation, return
Finish ==
    /\ pc = "post"
    /\ result' = FactorImportance(corr, pvals, norm)
    /\ pc' = "done"
    /\ UNCHANGED <<X, y, norm, ties, thr, i, phase, self_x, self_y, rank,
                   fo_first, mean_abs, cur, mom, corr, pvals>>
    /\ UNCHANGED fvars

(***************************************************************************)
(* Actions: Fsel.score_models                                              *)
(***************************************************************************)
\* one pass of the loop over the models: the model's factor_importance
\* returns sc, a vector of non-negative scores
ScoreModel ==
    /\ fpc = "score"
    /\ Len(dfwoe) < nmodels
    /\ \E sc \in [1..nfeatures -> ScoreVals] :
        \E woe \in {EvalScore(sc)} :
            /\ score' = sc
            /\ dfscore' = Append(dfscore, [j \in 1..nfeatures |-> Round4(sc[j])])
            /\ dfwoe' = Append(dfwoe, woe)
            /\ count_select' = [j \in 1..nfeatures |-> count_select[j] + woe[j]]
    /\ UNCHANGED <<nmodels, nfeatures, selected, fpc>>
    /\ UNCHANGED xvars

\* after the loop: the vote
SelectFeatures ==
    /\ fpc = "score"
    /\ Len(dfwoe) = nmodels
    /\ selected' = Select(count_select, nfeatures)
    /\ fpc' = "done"
    /\ UNCHANGED <<nmodels, nfeatures, score, dfscore, dfwoe, count_select>>
    /\ UNCHANGED xvars

(***************************************************************************)
(* Specifications                                                          *)
(***************************************************************************)
Next ==
    \/ NewXicor
    \/ MeanAbsFirst
    \/ MeanAbsSecond
    \/ PvalBegin
    \/ Finish

Spec == Init /\ [][Next]_vars

NextXicor ==
    \/ NewXicor
    \/ Resample
    \/ MeanAbsFirst
    \/ MeanAbsSecond
    \/ PvalBegin

SpecXicor == InitXicor /\ [][NextXicor]_vars

NextFsel ==
    \/ ScoreModel
    \/ SelectFeatures

SpecFsel == InitFsel /\ [][NextFsel]_vars

(***************************************************************************)
(* Properties                                                              *)
(***************************************************************************)
HasTies(v) == \E a, b \in 1..Len(v) : a # b /\ v[a] = v[b]

IsConstant(v) == \A a, b \in 1..Len(v) : v[a] = v[b]

\* the Xicor object is built and holds column i
Built == pc \in {"ma1", "ma2", "pv"}

\* C1: with norm=True the returned scores sum to 1 whenever some column has
\* p <= 0.01, and are all 0 when no column has.
C1_NormalizedSum ==
    (pc = "done" /\ norm) =>
        IF \E j \in 1..Len(pvals) : PvalLe001(pvals[j])
        THEN FSum(result) = One
        ELSE \A j \in 1..Len(result) : result[j] = Zero

\* C2: whatever norm is, every column whose p-value is greater than 0.01 has
\* the score 0 in the returned vector.
C2_NonSignificantIsZero ==
    pc = "done" =>
        \A j \in 1..Len(result) : PvalGt001(pvals[j]) => result[j] = Zero

\* C2 happens: a column with a non-zero coefficient and p > 0.01 is returned
\* as 0 next to a significant column that keeps a non-zero score.
C2_Witness ==
    /\ pc = "done"
    /\ \E j, k \in 1..Len(result) :
        /\ PvalGt001(pvals[j]) /\ corr[j] # Zero /\ result[j] = Zero
        /\ PvalLe001(pvals[k]) /\ result[k] # Zero

\* C3: after stochastic_sample with threshold thr, x and y are unchanged if
\* len(x) <= thr, and otherwise hold exactly thr samples taken at the same
\* thr distinct indices of x and of y.
C3_PairedSubsample ==
    Built =>
        IF Len(X[i]) <= thr
        THEN self_x = X[i] /\ self_y = y
        ELSE /\ Len(self_x) = thr
             /\ Len(self_y) = thr
             /\ \E idx \in Draws(Len(y), thr) :
                 \A k \in 1..thr :
                     self_x[k] = X[i][idx[k]] /\ self_y[k] = y[idx[k]]

\* C3 happens: len(x) = thr + 1, thr samples are kept, and not the first thr.
C3_Witness ==
    /\ Built
    /\ Len(X[i]) = thr + 1
    /\ Len(self_x) = thr
    /\ self_x # SubSeq(X[i], 1, thr)
    /\ ~IsConstant(self_y)

\* C4: no NaN or Inf reaches the score vector returned by factor_importance
\* (a constant y is to be signalled as a domain error instead).
C4_NoNaNInScores ==
    pc = "done" => \A j \in 1..Len(result) : IsFinite(result[j])

\* C5: a feature is selected exactly when at least half of the models
\* accepted it.
C5_MajorityOfModels ==
    fpc = "done" =>
        \A j \in 1..nfeatures :
            selected[j] = 1 <=>
                2 * Cardinality({m \in 1..nmodels : dfwoe[m][j] = 1}) >= nmodels

\* C6: pval_asymptotic(ties=True) uses the tie-corrected variance v and
\* pval_asymptotic(ties=False) the constant variance 2/5.
C6_TiesFlagSelectsTheory ==
    (pc = "post" /\ Len(pvals) = 1) =>
        pvals[1] = Pval(Len(self_x), cur,
                        IF ties
                        THEN TieMoments(SortedF(YRankMax(self_y)), self_y).v
                        ELSE SimpleVariance)

\* C7: eval_score accepts a feature only if its score is at least woe_min of
\* the total, and never accepts a feature whose score is 0.
C7_ZeroScoreNotAccepted ==
    Len(dfwoe) > 0 =>
        \A j \in 1..nfeatures :
            /\ dfwoe[Len(dfwoe)][j] = 1 =>
                  FGe(score[j], FMul(FSum(score), Norm(1, WoeMinDen)))
            /\ score[j] = Zero => dfwoe[Len(dfwoe)][j] = 0

\* C8: x_ordered_rank is a permutation of 1..n in index order that respects
\* the order of the values; the draw only decides the order within ties.
C8_OrdinalRank ==
    pc = "ma2" =>
        /\ Len(rank) = Len(self_x)
        /\ {rank[k] : k \in 1..Len(rank)} = 1..Len(self_x)
        /\ \A a, b \in 1..Len(self_x) :
              self_x[a] < self_x[b] => rank[a] < rank[b]
        /\ \A a \in 1..Len(self_x) :
              /\ rank[a] > Cardinality({k \in 1..Len(self_x) : self_x[k] < self_x[a]})
              /\ rank[a] <= Cardinality({k \in 1..Len(self_x) : self_x[k] <= self_x[a]})

\* C8 happens: a draw that ranks tied values against their index order, with
\* distinct values present as well.
C8_Witness ==
    /\ pc = "ma2"
    /\ HasTies(self_x)
    /\ ~IsConstant(self_x)
    /\ \E a, b \in 1..Len(self_x) :
          a < b /\ self_x[a] = self_x[b] /\ rank[a] > rank[b]

\* C9: mean_absolute is the value computed from one sequence f_ordered, f
\* reordered by one ordinal ranking of x.
C9_SingleOrdering ==
    pc \in {"pv", "post"} =>
        \E p \in Perms(Len(self_x)) :
            mean_abs = MeanAbsolute(XRankMaxOrdered(self_x, self_y, p),
                                    XRankMaxOrdered(self_x, self_y, p))

\* the moments of the tie-corrected path from the sorted scaled ranks of y:
\* the means of ind2 * f^2 and of ind2 * f, each divided by d
MeanA(sf, d) ==
    FDiv(FMean(Tuple([k \in 1..Len(sf) |->
            FMul(FInt(2 * Len(sf) - 2 * k + 1), FMul(sf[k], sf[k]))])), FInt(d))

MeanC(sf, d) ==
    FDiv(FMean(Tuple([k \in 1..Len(sf) |->
            FMul(FInt(2 * Len(sf) - 2 * k + 1), sf[k])])), FInt(d))

VarianceOf(a, b, c, igm) ==
    FDiv(FAdd(FAdd(a, FNeg(FAdd(b, b))), FMul(c, c)), FMul(igm, igm))

InTiePath == ties = FALSE /\ phase = "pval"

\* C10 as stated: a and c are the plain means over the n positions, and
\* v = (a - 2b + c^2) / inverse_g_mean^2.
C10_PlainMeans ==
    InTiePath =>
        /\ mom.a = MeanA(SortedF(YRankMax(self_y)), 1)
        /\ mom.c = MeanC(SortedF(YRankMax(self_y)), 1)
        /\ mom.v = VarianceOf(mom.a, mom.b, mom.c, InverseGMean(self_y))

\* C10 amended: a and c are those means divided once more by n, and
\* v = (a - 2b + c^2) / inverse_g_mean^2.
C10_MeansOverN ==
    InTiePath =>
        /\ mom.a = MeanA(SortedF(YRankMax(self_y)), Len(self_y))
        /\ mom.c = MeanC(SortedF(YRankMax(self_y)), Len(self_y))
        /\ mom.v = VarianceOf(mom.a, mom.b, mom.c, InverseGMean(self_y))

\* C10 happens: the variance of a y with ties and three samples is computed
\* and is a positive number.
C10_Witness ==
    /\ InTiePath
    /\ Len(self_y) = 3
    /\ HasTies(self_y)
    /\ IsFinite(mom.v)
    /\ FGt(mom.v, Zero)

=============================================================================
